---------------------------- MODULE Spec2Model ----------------------------
(* CakeFund Tracker (cake-fund-tracker/src/App.jsx): the shared ledger      *)
(* store (meta/admin, coworkers, contributions, paymentInfo/details), the   *)
(* client sessions that mirror it through snapshot listeners, the organizer *)
(* claim, the coworker and contribution handlers and the upcoming-birthday  *)
(* computation.                                                             *)
EXTENDS Integers, Sequences, FiniteSets, TLC

(***************************************************************************)
(* Bounds of the model.                                                    *)
(***************************************************************************)
\* coworker documents the store ever creates (addDoc never reuses an id)
MaxCoworkers == 3
\* largest amount a pledge prompt is given
MaxAmount == 1
\* store writes issued in one behaviour
MaxWrites == 3
\* coworker documents in the store when the birthday computation is exercised
MaxList == 2
\* days the clock advances while the page is open
MaxDays == 2
\* coworker documents in the store when the card summary is exercised
MaxStaff == 4
\* largest amount of a stored entry when the card summary is exercised
MaxStored == 2

(***************************************************************************)
(* Program constants.                                                      *)
(***************************************************************************)
\* next30Days.setDate(today.getDate() + 30)
WindowDays == 30

Sessions == {"s1", "s2"}

\* user.uid: one identity per session
Uid(s) == IF s = "s1" THEN "uid1" ELSE "uid2"

\* a missing value: null, undefined, a document that does not exist
Null == [null |-> TRUE]

(***************************************************************************)
(* JavaScript Date, in local time, to the hour: [y, m, d, h].               *)
(***************************************************************************)
IsLeap(y) == (y % 4 = 0 /\ y % 100 # 0) \/ y % 400 = 0

DaysInMonth(y, m) ==
    IF m \in {4, 6, 9, 11} THEN 30
    ELSE IF m = 2 THEN (IF IsLeap(y) THEN 29 ELSE 28)
    ELSE 31

RECURSIVE DaysBeforeMonth(_, _)
DaysBeforeMonth(y, m) ==
    IF m = 1 THEN 0 ELSE DaysBeforeMonth(y, m - 1) + DaysInMonth(y, m - 1)

\* days from 1 January 1970 to 1 January y
DaysBeforeYear(y) ==
    365 * (y - 1970)
      + ((y - 1) \div 4 - (y - 1) \div 100 + (y - 1) \div 400)
      - (1969 \div 4 - 1969 \div 100 + 1969 \div 400)

DayNumber(date) ==
    DaysBeforeYear(date.y) + DaysBeforeMonth(date.y, date.m) + date.d - 1

\* Date.prototype.getTime, in hours
TimeValue(date) == DayNumber(date) * 24 + date.h

\* MakeDay: a day past the end of its month rolls into the following months
RECURSIVE MakeDate(_, _, _, _)
MakeDate(y, m, d, h) ==
    IF d > DaysInMonth(y, m)
    THEN MakeDate(IF m = 12 THEN y + 1 ELSE y,
                  IF m = 12 THEN 1 ELSE m + 1,
                  d - DaysInMonth(y, m), h)
    ELSE [y |-> y, m |-> m, d |-> d, h |-> h]

\* date.setFullYear(y): month, day and time of day kept, then normalised
SetFullYear(date, y) == MakeDate(y, date.m, date.d, date.h)

\* date.setDate(n)
SetDate(date, n) == MakeDate(date.y, date.m, n, date.h)

\* date.setHours(0, 0, 0, 0)
SetHoursZero(date) == [date EXCEPT !.h = 0]


(***************************************************************************)
(* upcomingBirthdays (useMemo): map, filter, filter, sort.                  *)
(***************************************************************************)
\* const today = new Date(); today.setHours(0, 0, 0, 0)
Today(clock) == SetHoursZero(clock)

\* const next30Days = new Date(today); next30Days.setDate(today.getDate() + 30)
Next30Days(clock) == SetDate(Today(clock), Today(clock).d + WindowDays)

\* NextBirthday without the advance to the following year
NextBirthdayThisYear(birthday, clock) == SetFullYear(birthday, Today(clock).y)

\* the map callback's date: this year's occurrence, next year's when that is past
NextBirthday(birthday, clock) ==
    LET today == Today(clock)
        thisYear == SetFullYear(birthday, today.y)
    IN  IF TimeValue(thisYear) < TimeValue(today)
        THEN SetFullYear(thisYear, today.y + 1)
        ELSE thisYear

\* .map(cw => { if (!cw.birthday) return null; ... return {...cw, nextBirthday} })
WithNextBirthday(cw, clock) ==
    IF cw.birthday = Null THEN Null
    ELSE [id |-> cw.id, name |-> cw.name, birthday |-> cw.birthday,
          nextBirthday |-> NextBirthday(cw.birthday, clock)]

\* cw => cw.nextBirthday >= today && cw.nextBirthday <= next30Days
InWindow(cw, clock) ==
    /\ TimeValue(cw.nextBirthday) >= TimeValue(Today(clock))
    /\ TimeValue(cw.nextBirthday) <= TimeValue(Next30Days(clock))

\* (a, b) => a.nextBirthday - b.nextBirthday
CompareNextBirthday(a, b) == TimeValue(a.nextBirthday) - TimeValue(b.nextBirthday)

\* Array.prototype.sort is stable: e goes behind every element not after it
RECURSIVE InsertSorted(_, _)
InsertSorted(e, sorted) ==
    IF sorted = << >> THEN << e >>
    ELSE IF CompareNextBirthday(e, sorted[Len(sorted)]) >= 0
         THEN Append(sorted, e)
         ELSE Append(InsertSorted(e, SubSeq(sorted, 1, Len(sorted) - 1)),
                     sorted[Len(sorted)])

\* SortByNextBirthday without the sort
SortSkipped(list) == list

RECURSIVE SortByNextBirthday(_)
SortByNextBirthday(list) ==
    IF list = << >> THEN << >>
    ELSE InsertSorted(list[Len(list)],
                      SortByNextBirthday(SubSeq(list, 1, Len(list) - 1)))

UpcomingBirthdays(cws, clock) ==
    LET mapped == [i \in 1..Len(cws) |-> WithNextBirthday(cws[i], clock)]
        NotNull(e) == e # Null
        Kept(e) == InWindow(e, clock)
    IN  SortByNextBirthday(SelectSeq(SelectSeq(mapped, NotNull), Kept))

(***************************************************************************)
(* State.                                                                  *)
(***************************************************************************)
VARIABLES
    \* the ledger store
    adminDoc,             \* meta/admin: [organizerUid] or Null
    coworkerDocs,         \* coworkers: id -> [name, birthday]
    contributionDocs,     \* contributions: <<recipient, year>> -> record
    paymentInfoDoc,       \* paymentInfo/details: [method, details] or Null
    nextId,               \* the id addDoc gives the next coworker document
    \* the wall clock, new Date(), in local time, and the local UTC offset in hours
    now, timezone,
    \* each session's React state
    user, isOrganizer, loading, coworkers, contributions, paymentInfo,
    isContributionModalOpen, contributionTarget,
    upcomingBirthdays,    \* the memoized value
    pc,                   \* where the session's checkOrganizer stands
    \* the last write request a handler sent to the store, and how many were sent
    lastWrite, nWrites

storeVars == <<adminDoc, coworkerDocs, contributionDocs, paymentInfoDoc, nextId>>
viewVars == <<coworkers, contributions, paymentInfo, upcomingBirthdays>>
promptVars == <<isContributionModalOpen, contributionTarget>>
roleVars == <<user, isOrganizer, loading, pc>>
writeVars == <<lastWrite, nWrites>>
vars == <<storeVars, now, timezone, viewVars, promptVars, roleVars, writeVars>>

\* new Date() when the ledger is exercised
LedgerNow == [y |-> 2025, m |-> 6, d |-> 1, h |-> 10]

\* useState(...) initial values; the store is empty
Init ==
    /\ adminDoc = Null
    /\ coworkerDocs = << >>
    /\ contributionDocs = << >>
    /\ paymentInfoDoc = Null
    /\ nextId = 1
    /\ now = LedgerNow
    /\ timezone = 8
    /\ user = [s \in Sessions |-> Null]
    /\ isOrganizer = [s \in Sessions |-> FALSE]
    /\ loading = [s \in Sessions |-> TRUE]
    /\ coworkers = [s \in Sessions |-> << >>]
    /\ contributions = [s \in Sessions |-> << >>]
    /\ paymentInfo = [s \in Sessions |-> [method |-> "", details |-> ""]]
    /\ isContributionModalOpen = [s \in Sessions |-> FALSE]
    /\ contributionTarget = [s \in Sessions |-> Null]
    /\ upcomingBirthdays = [s \in Sessions |-> << >>]
    /\ pc = [s \in Sessions |-> "signIn"]
    /\ lastWrite = Null
    /\ nWrites = 0

(***************************************************************************)
(* Authentication and the organizer claim.                                 *)
(***************************************************************************)
\* signIn / onAuthStateChanged: setUser(currentUser); the effect on [user] then
\* calls checkOrganizer, which suspends at getDoc, and subscribes the listeners
SignIn(s) ==
    /\ pc[s] = "signIn"
    /\ user' = [user EXCEPT ![s] = [uid |-> Uid(s)]]
    /\ pc' = [pc EXCEPT ![s] = "getDoc"]
    /\ UNCHANGED <<storeVars, now, timezone, viewVars, promptVars, isOrganizer, loading, writeVars>>

\* docSnap.exists() && docSnap.data().organizerUid === user.uid
ClaimIsMine(s) == adminDoc # Null /\ adminDoc.organizerUid = user[s].uid

\* checkOrganizer resumes from getDoc(adminRef)
CheckOrganizerRead(s) ==
    /\ pc[s] = "getDoc"
    /\ IF adminDoc # Null
       THEN /\ isOrganizer' = [isOrganizer EXCEPT ![s] = @ \/ ClaimIsMine(s)]
            /\ loading' = [loading EXCEPT ![s] = FALSE]
            /\ pc' = [pc EXCEPT ![s] = "done"]
       ELSE /\ pc' = [pc EXCEPT ![s] = "setDoc"]
            /\ UNCHANGED <<isOrganizer, loading>>
    /\ UNCHANGED <<storeVars, now, timezone, viewVars, promptVars, user, writeVars>>

\* checkOrganizer resumes from setDoc(adminRef, { organizerUid: user.uid })
CheckOrganizerWrite(s) ==
    /\ pc[s] = "setDoc"
    /\ adminDoc' = [organizerUid |-> user[s].uid]
    /\ isOrganizer' = [isOrganizer EXCEPT ![s] = TRUE]
    /\ loading' = [loading EXCEPT ![s] = FALSE]
    /\ pc' = [pc EXCEPT ![s] = "done"]
    /\ UNCHANGED <<coworkerDocs, contributionDocs, paymentInfoDoc, nextId, now, timezone,
                   viewVars, promptVars, user, writeVars>>

\* CheckOrganizerFails without the finally block
CheckOrganizerFailsLoading(s) ==
    /\ pc[s] \in {"getDoc", "setDoc"}
    /\ pc' = [pc EXCEPT ![s] = "done"]
    /\ UNCHANGED <<storeVars, now, timezone, viewVars, promptVars, user, isOrganizer,
                   loading, writeVars>>

\* getDoc or setDoc rejects: catch logs, finally setLoading(false)
CheckOrganizerFails(s) ==
    /\ pc[s] \in {"getDoc", "setDoc"}
    /\ loading' = [loading EXCEPT ![s] = FALSE]
    /\ pc' = [pc EXCEPT ![s] = "done"]
    /\ UNCHANGED <<storeVars, now, timezone, viewVars, promptVars, user, isOrganizer, writeVars>>

(***************************************************************************)
(* Snapshot listeners: each delivery replaces the view.                    *)
(***************************************************************************)
RECURSIVE SetToSeq(_)
\* the elements of a set of integers, ascending
SetToSeq(S) ==
    IF S = {} THEN << >>
    ELSE LET top == CHOOSE x \in S : \A z \in S : z <= x
         IN  Append(SetToSeq(S \ {top}), top)

\* snapshot.docs.map(doc => ({ id: doc.id, ...doc.data() })), in document-id order
CoworkersData(docs) ==
    LET ids == SetToSeq(DOMAIN docs)
    IN  [i \in 1..Len(ids) |->
            [id |-> ids[i], name |-> docs[ids[i]].name,
             birthday |-> docs[ids[i]].birthday]]

\* SnapshotCoworkers with the delivery merged into the view: the entries of
\* documents that are no longer delivered stay
SnapshotCoworkersMerging(s) ==
    /\ user[s] # Null
    /\ coworkers[s] # CoworkersData(coworkerDocs)
    /\ LET Gone(cw) == cw.id \notin DOMAIN coworkerDocs
       IN  coworkers' = [coworkers EXCEPT ![s] =
                            SelectSeq(coworkers[s], Gone) \o CoworkersData(coworkerDocs)]
    /\ upcomingBirthdays' =
          [upcomingBirthdays EXCEPT ![s] = UpcomingBirthdays(coworkers'[s], now)]
    /\ UNCHANGED <<storeVars, now, timezone, contributions, paymentInfo, promptVars,
                   roleVars, writeVars>>

\* onSnapshot(coworkersCol, ...): setCoworkers; the render recomputes the memo
SnapshotCoworkers(s) ==
    /\ user[s] # Null
    /\ coworkers[s] # CoworkersData(coworkerDocs)
    /\ coworkers' = [coworkers EXCEPT ![s] = CoworkersData(coworkerDocs)]
    /\ upcomingBirthdays' =
          [upcomingBirthdays EXCEPT ![s] = UpcomingBirthdays(coworkers'[s], now)]
    /\ UNCHANGED <<storeVars, now, timezone, contributions, paymentInfo, promptVars,
                   roleVars, writeVars>>

\* onSnapshot(contributionsCol, ...): contributionsData[doc.id] = { id, ...doc.data() }
SnapshotContributions(s) ==
    /\ user[s] # Null
    /\ contributions[s] # contributionDocs
    /\ contributions' = [contributions EXCEPT ![s] = contributionDocs]
    /\ UNCHANGED <<storeVars, now, timezone, coworkers, paymentInfo, upcomingBirthdays,
                   promptVars, roleVars, writeVars>>

\* onSnapshot(paymentInfoDocRef, ...)
PaymentInfoData(d) == IF d # Null THEN d ELSE [method |-> "", details |-> ""]

SnapshotPaymentInfo(s) ==
    /\ user[s] # Null
    /\ paymentInfo[s] # PaymentInfoData(paymentInfoDoc)
    /\ paymentInfo' = [paymentInfo EXCEPT ![s] = PaymentInfoData(paymentInfoDoc)]
    /\ UNCHANGED <<storeVars, now, timezone, coworkers, contributions, upcomingBirthdays,
                   promptVars, roleVars, writeVars>>

(***************************************************************************)
(* Store writes.                                                           *)
(***************************************************************************)
\* the handler's write reaches the store: the request is the last one sent
Sent(request) ==
    /\ nWrites < MaxWrites
    /\ lastWrite' = request
    /\ nWrites' = nWrites + 1

Without(f, k) == [j \in DOMAIN f \ {k} |-> f[j]]

With(f, k, v) == [j \in DOMAIN f \cup {k} |-> IF j = k THEN v ELSE f[j]]

\* setDoc(ref, data, { merge: true }): the fields data names are written, every
\* other field of an existing document stays
MergeContribution(docs, cid, data) ==
    IF cid \in DOMAIN docs
    THEN With(docs, cid,
              [birthdayCoworkerId |-> data.birthdayCoworkerId,
               year |-> data.year,
               contributors |->
                  [k \in DOMAIN docs[cid].contributors \cup DOMAIN data.contributors |->
                      IF k \in DOMAIN data.contributors
                      THEN data.contributors[k]
                      ELSE docs[cid].contributors[k]]])
    ELSE With(docs, cid, data)

(***************************************************************************)
(* Coworker and payment-info handlers.                                     *)
(***************************************************************************)
\* the page is rendered: if (loading) return <Loading/>
Rendered(s) == ~loading[s]

\* ids of the coworkers the session lists
ListedIds(s) == {coworkers[s][i].id : i \in 1..Len(coworkers[s])}

\* <input type="date"> values an organizer enters ("YYYY-MM-DD", Null for "")
BirthdayInputs == {Null, [y |-> 1990, m |-> 6, d |-> 15]}
Names == {"", "Ann"}

\* the day before a calendar day
DayBefore(text) ==
    IF text.d > 1 THEN [text EXCEPT !.d = @ - 1]
    ELSE IF text.m > 1
         THEN [y |-> text.y, m |-> text.m - 1, d |-> DaysInMonth(text.y, text.m - 1)]
         ELSE [y |-> text.y - 1, m |-> 12, d |-> 31]

\* new Date("YYYY-MM-DD") is midnight UTC: in local time that is offset hours
\* into the day, or into the day before when the offset is negative
NewDate(text, offset) ==
    IF offset >= 0
    THEN [y |-> text.y, m |-> text.m, d |-> text.d, h |-> offset]
    ELSE LET p == DayBefore(text)
         IN  [y |-> p.y, m |-> p.m, d |-> p.d, h |-> 24 + offset]

\* CanSaveCoworker without the role check
CanSaveCoworkerAnyUser(s) == user[s] # Null

\* if (!user || !isOrganizer) return
CanSaveCoworker(s) == user[s] # Null /\ isOrganizer[s]

\* CoworkerModal.handleSubmit, then handleSaveCoworker({ id, name, birthday })
HandleSaveCoworker(s, coworker, name, birthday, ok) ==
    /\ Rendered(s)
    /\ name # ""
    /\ CanSaveCoworker(s)
    /\ coworker # Null \/ nextId <= MaxCoworkers
    /\ LET data == [name |-> name,
                    birthday |-> IF birthday # Null
                                 THEN NewDate(birthday, timezone) ELSE Null]
           target == IF coworker # Null THEN coworker.id ELSE nextId
       IN  /\ Sent([op |-> "saveCoworker", by |-> s, ok |-> ok,
                    id |-> target, birthday |-> data.birthday])
           /\ IF ok
              THEN /\ coworkerDocs' = With(coworkerDocs, target, data)
                   /\ nextId' = IF coworker # Null THEN nextId ELSE nextId + 1
              ELSE UNCHANGED <<coworkerDocs, nextId>>
    /\ UNCHANGED <<adminDoc, contributionDocs, paymentInfoDoc, now, timezone, viewVars,
                   promptVars, roleVars>>

\* if (!user || !name) return
CanSaveContributorName(s, name) == user[s] # Null /\ name # ""

\* AddContributorModal.handleSave, then handleSaveContributorName(name)
HandleSaveContributorName(s, name, ok) ==
    /\ Rendered(s)
    /\ CanSaveContributorName(s, name)
    /\ nextId <= MaxCoworkers
    /\ Sent([op |-> "addContributor", by |-> s, ok |-> ok,
             id |-> nextId, birthday |-> Null])
    /\ IF ok
       THEN /\ coworkerDocs' = With(coworkerDocs, nextId, [name |-> name, birthday |-> Null])
            /\ nextId' = nextId + 1
       ELSE UNCHANGED <<coworkerDocs, nextId>>
    /\ UNCHANGED <<adminDoc, contributionDocs, paymentInfoDoc, now, timezone, viewVars,
                   promptVars, roleVars>>

\* if (!isOrganizer) return
CanDeleteCoworker(s) == isOrganizer[s]

\* the contribution records of the session's view that name the coworker
Referencing(s, id) ==
    {cid \in DOMAIN contributions[s] : id \in DOMAIN contributions[s][cid].contributors}

\* HandleDeleteCoworker with the writes sent one by one instead of in a batch:
\* a failure after the first leaves the coworker document deleted
HandleDeleteCoworkerOneByOne(s, id, ok) ==
    /\ Rendered(s)
    /\ id \in ListedIds(s)
    /\ CanDeleteCoworker(s)
    /\ LET touched == Referencing(s, id)
           commits == ok /\ touched \subseteq DOMAIN contributionDocs
       IN  /\ Sent([op |-> "deleteCoworker", by |-> s, ok |-> commits, id |-> id])
           /\ coworkerDocs' = Without(coworkerDocs, id)
           /\ IF commits
              THEN contributionDocs' =
                      [cid \in DOMAIN contributionDocs |->
                          IF cid \in touched
                          THEN [contributionDocs[cid] EXCEPT !.contributors =
                                   Without(contributions[s][cid].contributors, id)]
                          ELSE contributionDocs[cid]]
              ELSE UNCHANGED contributionDocs
    /\ UNCHANGED <<adminDoc, paymentInfoDoc, nextId, now, timezone, viewVars, promptVars, roleVars>>

\* batch.delete(coworkerRef); batch.update(contributionRef, { contributors }) for
\* each record of the view that names the coworker; batch.commit()
HandleDeleteCoworker(s, id, ok) ==
    /\ Rendered(s)
    /\ id \in ListedIds(s)
    /\ CanDeleteCoworker(s)
    /\ LET touched == Referencing(s, id)
           \* update() rejects, and with it the batch, when a document is missing
           commits == ok /\ touched \subseteq DOMAIN contributionDocs
       IN  /\ Sent([op |-> "deleteCoworker", by |-> s, ok |-> commits, id |-> id])
           /\ IF commits
              THEN /\ coworkerDocs' = Without(coworkerDocs, id)
                   /\ contributionDocs' =
                         [cid \in DOMAIN contributionDocs |->
                             IF cid \in touched
                             THEN [contributionDocs[cid] EXCEPT !.contributors =
                                      Without(contributions[s][cid].contributors, id)]
                             ELSE contributionDocs[cid]]
              ELSE UNCHANGED <<coworkerDocs, contributionDocs>>
    /\ UNCHANGED <<adminDoc, paymentInfoDoc, nextId, now, timezone, viewVars, promptVars, roleVars>>

PaymentInfos == {[method |-> "GCash", details |-> "0917"]}

\* if (!user || !isOrganizer) return
CanSavePaymentInfo(s) == user[s] # Null /\ isOrganizer[s]

\* PaymentInfoModal.handleSave, then handleSavePaymentInfo({ method, details })
HandleSavePaymentInfo(s, info, ok) ==
    /\ Rendered(s)
    /\ CanSavePaymentInfo(s)
    /\ Sent([op |-> "savePaymentInfo", by |-> s, ok |-> ok])
    /\ paymentInfoDoc' = IF ok THEN info ELSE paymentInfoDoc
    /\ UNCHANGED <<adminDoc, coworkerDocs, contributionDocs, nextId, now, timezone, viewVars,
                   promptVars, roleVars>>

(***************************************************************************)
(* Contribution handlers.                                                  *)
(***************************************************************************)
\* `${birthdayCoworkerId}_${new Date().getFullYear()}`
ContributionId(birthdayCoworkerId, clock) == <<birthdayCoworkerId, clock.y>>

Unpaid == [amount |-> 0, status |-> "unpaid"]

\* BirthdayCard: contributionData[cw.id] || { amount: 0, status: 'unpaid' }, with
\* contributionData = contributions[contributionId]?.contributors || {}
SeenContribution(s, birthdayCoworkerId, contributorId) ==
    LET cid == ContributionId(birthdayCoworkerId, now)
    IN  IF cid \in DOMAIN contributions[s]
           /\ contributorId \in DOMAIN contributions[s][cid].contributors
        THEN contributions[s][cid].contributors[contributorId]
        ELSE Unpaid

\* updateContribution: currentContributors, then { ...currentContributors,
\* [contributorId]: newContributionData }
UpdatedContributors(s, birthdayCoworkerId, contributorId, newContributionData) ==
    LET cid == ContributionId(birthdayCoworkerId, now)
        currentContributors ==
            IF cid \in DOMAIN contributions[s]
            THEN contributions[s][cid].contributors
            ELSE [id \in ListedIds(s) |-> Unpaid]
    IN  With(currentContributors, contributorId, newContributionData)

\* updateContribution(birthdayCoworkerId, contributorId, newContributionData)
UpdateContribution(s, via, birthdayCoworkerId, contributorId, newContributionData, ok) ==
    /\ user[s] # Null
    /\ Sent([op |-> "updateContribution", via |-> via, by |-> s, ok |-> ok,
             birthdayCoworkerId |-> birthdayCoworkerId,
             contributorId |-> contributorId, data |-> newContributionData])
    /\ contributionDocs' =
          IF ok
          THEN MergeContribution(contributionDocs,
                  ContributionId(birthdayCoworkerId, now),
                  [birthdayCoworkerId |-> birthdayCoworkerId,
                   year |-> now.y,
                   contributors |-> UpdatedContributors(s, birthdayCoworkerId,
                                        contributorId, newContributionData)])
          ELSE contributionDocs

\* the ContributionModal overlay (fixed inset-0) is on the page
PromptShown(s) == isContributionModalOpen[s] /\ contributionTarget[s] # Null

\* ClickEffect with a pledged entry taken back to unpaid
ClickEffectTakesBack(contribution) ==
    IF contribution.status = "unpaid" THEN [prompt |-> TRUE]
    ELSE [prompt |-> FALSE, data |-> Unpaid]

\* ClickEffect with the amount of a paid entry kept on the way to unpaid
ClickEffectKeepsAmount(contribution) ==
    IF contribution.status = "unpaid" THEN [prompt |-> TRUE]
    ELSE IF contribution.status = "pledged"
         THEN [prompt |-> FALSE,
               data |-> [amount |-> contribution.amount, status |-> "paid"]]
         ELSE [prompt |-> FALSE,
               data |-> [amount |-> contribution.amount, status |-> "unpaid"]]

\* handleContributionClick's branch on contribution?.status || 'unpaid'
ClickEffect(contribution) ==
    IF contribution.status = "unpaid" THEN [prompt |-> TRUE]
    ELSE IF contribution.status = "pledged"
         THEN [prompt |-> FALSE,
               data |-> [amount |-> contribution.amount, status |-> "paid"]]
         ELSE [prompt |-> FALSE, data |-> Unpaid]

\* a click on a contributor's cell of a birthday card
HandleContributionClick(s, birthdayCoworkerId, contributorId, ok) ==
    /\ Rendered(s)
    /\ ~PromptShown(s)
    /\ \E i \in 1..Len(upcomingBirthdays[s]) :
          upcomingBirthdays[s][i].id = birthdayCoworkerId
    /\ contributorId \in ListedIds(s) \ {birthdayCoworkerId}
    /\ LET effect == ClickEffect(SeenContribution(s, birthdayCoworkerId, contributorId))
       IN  IF effect.prompt
           THEN /\ contributionTarget' = [contributionTarget EXCEPT ![s] =
                      [birthdayCoworkerId |-> birthdayCoworkerId,
                       contributorId |-> contributorId]]
                /\ isContributionModalOpen' = [isContributionModalOpen EXCEPT ![s] = TRUE]
                /\ UNCHANGED <<contributionDocs, writeVars>>
           ELSE /\ UpdateContribution(s, "click", birthdayCoworkerId, contributorId,
                                      effect.data, ok)
                /\ UNCHANGED promptVars
    /\ UNCHANGED <<adminDoc, coworkerDocs, paymentInfoDoc, nextId, now, timezone,
                   viewVars, roleVars>>

\* what the amount field holds: nothing, or the decimal text of a number
AmountInputs == {[text |-> "empty"]} \cup {[text |-> "number", value |-> n] : n \in -1..MaxAmount}

\* parseFloat(amount)
ParseFloat(input) ==
    IF input.text = "number" THEN [nan |-> FALSE, value |-> input.value]
    ELSE [nan |-> TRUE, value |-> 0]

\* AmountAccepted with zero let through
AmountAcceptedZero(parsedAmount) == ~parsedAmount.nan /\ parsedAmount.value >= 0

\* AmountAccepted with every number let through
AmountAcceptedAnyNumber(parsedAmount) == ~parsedAmount.nan

\* !isNaN(parsedAmount) && parsedAmount > 0
AmountAccepted(parsedAmount) == ~parsedAmount.nan /\ parsedAmount.value > 0

\* ContributionModal.handleSave with an accepted amount: handlePledgeContribution
HandlePledgeContribution(s, input, ok) ==
    /\ PromptShown(s)
    /\ AmountAccepted(ParseFloat(input))
    /\ UpdateContribution(s, "pledge", contributionTarget[s].birthdayCoworkerId,
                          contributionTarget[s].contributorId,
                          [amount |-> ParseFloat(input).value, status |-> "pledged"], ok)
    /\ isContributionModalOpen' = [isContributionModalOpen EXCEPT ![s] = FALSE]
    /\ contributionTarget' = [contributionTarget EXCEPT ![s] = Null]
    /\ UNCHANGED <<adminDoc, coworkerDocs, paymentInfoDoc, nextId, now, timezone,
                   viewVars, roleVars>>

\* ContributionModal.handleSave with a rejected amount, Cancel or X: onClose
ClosePrompt(s, input) ==
    /\ PromptShown(s)
    /\ ~AmountAccepted(ParseFloat(input))
    /\ isContributionModalOpen' = [isContributionModalOpen EXCEPT ![s] = FALSE]
    /\ UNCHANGED <<storeVars, now, timezone, viewVars, contributionTarget, roleVars,
                   writeVars>>

(***************************************************************************)
(* The card summary the render computes for each upcoming birthday.        *)
(***************************************************************************)
\* contributions[contributionId]?.contributors || {}
ContributionData(s, bdayCoworkerId) ==
    LET cid == ContributionId(bdayCoworkerId, now)
    IN  IF cid \in DOMAIN contributions[s]
        THEN contributions[s][cid].contributors
        ELSE << >>

\* Object.values(contributionData)
ValuesOf(contributionData) ==
    LET keys == SetToSeq(DOMAIN contributionData)
    IN  [i \in 1..Len(keys) |-> contributionData[keys[i]]]

\* IsPaid with pledged entries let through
IsPaidOrPledged(c) == c.status \in {"paid", "pledged"}

\* c => c.status === 'paid'
IsPaid(c) == c.status = "paid"

\* Object.values(contributionData).filter(c => c.status === 'paid')
PaidContributions(contributionData) == SelectSeq(ValuesOf(contributionData), IsPaid)

\* paidContributions.length
PaidCount(contributionData) == Len(PaidContributions(contributionData))

\* list.reduce((sum, c) => sum + c.amount, 0)
RECURSIVE ReduceAmounts(_)
ReduceAmounts(list) ==
    IF list = << >> THEN 0
    ELSE ReduceAmounts(SubSeq(list, 1, Len(list) - 1)) + list[Len(list)].amount

\* paidContributions.reduce((sum, c) => sum + c.amount, 0)
TotalAmount(contributionData) == ReduceAmounts(PaidContributions(contributionData))

\* TotalContributors without the recipient taken off
TotalContributorsAll(s) == Len(coworkers[s])

\* coworkers.length > 1 ? coworkers.length - 1 : 0
TotalContributors(s) == IF Len(coworkers[s]) > 1 THEN Len(coworkers[s]) - 1 ELSE 0

\* totalContributors > 0 ? (paidCount / totalContributors) * 100 : 0, as the
\* fraction num / den
Progress(paidCount, totalContributors) ==
    IF totalContributors > 0
    THEN [num |-> paidCount * 100, den |-> totalContributors]
    ELSE [num |-> 0, den |-> 1]

(***************************************************************************)
(* Roles: sessions sign in, resolve the organizer claim and manage         *)
(* coworkers and payment info against the one store.                       *)
(***************************************************************************)
Outcomes == BOOLEAN

Election(s) ==
    \/ SignIn(s)
    \/ CheckOrganizerRead(s)
    \/ CheckOrganizerWrite(s)
    \/ CheckOrganizerFails(s)

CoworkerManagement(s) ==
    \/ \E i \in 0..Len(coworkers[s]), name \in Names, birthday \in BirthdayInputs,
          ok \in Outcomes :
          HandleSaveCoworker(s, IF i = 0 THEN Null ELSE coworkers[s][i],
                             name, birthday, ok)
    \/ \E name \in Names, ok \in Outcomes : HandleSaveContributorName(s, name, ok)
    \/ \E id \in ListedIds(s), ok \in Outcomes : HandleDeleteCoworker(s, id, ok)
    \/ SnapshotCoworkers(s)

PaymentInfoManagement(s) ==
    \/ \E info \in PaymentInfos, ok \in Outcomes : HandleSavePaymentInfo(s, info, ok)
    \/ SnapshotPaymentInfo(s)

Contributions(s) ==
    \/ \E r \in ListedIds(s), x \in ListedIds(s), ok \in Outcomes :
          HandleContributionClick(s, r, x, ok)
    \/ \E input \in AmountInputs, ok \in Outcomes : HandlePledgeContribution(s, input, ok)
    \/ \E input \in AmountInputs : ClosePrompt(s, input)
    \/ SnapshotContributions(s)

Next ==
    \E s \in Sessions :
        \/ Election(s)
        \/ CoworkerManagement(s)
        \/ PaymentInfoManagement(s)
        \/ Contributions(s)

Spec == Init /\ [][Next]_vars

\* the promises checkOrganizer awaits settle: getDoc and setDoc each resolve
\* or reject
CheckOrganizerSettles(s) ==
    \/ CheckOrganizerRead(s)
    \/ CheckOrganizerWrite(s)
    \/ CheckOrganizerFails(s)

SpecSettling == Spec /\ \A s \in Sessions : WF_vars(CheckOrganizerSettles(s))

(***************************************************************************)
(* The ledger: the organizer claim is settled (session s1 holds it), two   *)
(* coworkers exist and every session has received its snapshots; sessions  *)
(* then add and delete coworkers and click contribution cells.             *)
(***************************************************************************)
\* the coworker documents the organizer has saved: a birthday person and a
\* contributor
Staff ==
    <<[name |-> "Ann", birthday |-> NewDate([y |-> 1990, m |-> 6, d |-> 15], 8)],
      [name |-> "Ann", birthday |-> Null]>>

InitLedger ==
    /\ adminDoc = [organizerUid |-> Uid("s1")]
    /\ coworkerDocs = Staff
    /\ contributionDocs = << >>
    /\ paymentInfoDoc = Null
    /\ nextId = Len(Staff) + 1
    /\ now = LedgerNow
    /\ timezone = 8
    /\ user = [s \in Sessions |-> [uid |-> Uid(s)]]
    /\ isOrganizer = [s \in Sessions |-> s = "s1"]
    /\ loading = [s \in Sessions |-> FALSE]
    /\ coworkers = [s \in Sessions |-> CoworkersData(coworkerDocs)]
    /\ contributions = [s \in Sessions |-> << >>]
    /\ paymentInfo = [s \in Sessions |-> [method |-> "", details |-> ""]]
    /\ isContributionModalOpen = [s \in Sessions |-> FALSE]
    /\ contributionTarget = [s \in Sessions |-> Null]
    /\ upcomingBirthdays =
          [s \in Sessions |-> UpcomingBirthdays(CoworkersData(coworkerDocs), now)]
    /\ pc = [s \in Sessions |-> "done"]
    /\ lastWrite = Null
    /\ nWrites = 0

NextLedger ==
    \E s \in Sessions :
        \/ Contributions(s)
        \/ \E name \in Names, ok \in Outcomes : HandleSaveContributorName(s, name, ok)
        \/ \E id \in ListedIds(s), ok \in Outcomes : HandleDeleteCoworker(s, id, ok)
        \/ SnapshotCoworkers(s)

SpecLedger == InitLedger /\ [][NextLedger]_vars

(***************************************************************************)
(* The birthday computation: the store holds coworker documents saved in   *)
(* some timezone, and each session's listener delivers them on some day.   *)
(***************************************************************************)
\* UTC offsets, in hours, of the office
Timezones == {-5, 0, 8}

\* new Date() at the render
Clocks ==
    {[y |-> 2025, m |-> 6, d |-> 1, h |-> 0],
     [y |-> 2025, m |-> 6, d |-> 1, h |-> 15],
     [y |-> 2025, m |-> 12, d |-> 20, h |-> 9],
     [y |-> 2024, m |-> 2, d |-> 1, h |-> 9],
     [y |-> 2024, m |-> 3, d |-> 5, h |-> 9],
     [y |-> 2025, m |-> 2, d |-> 1, h |-> 9],
     [y |-> 2025, m |-> 3, d |-> 2, h |-> 9]}

\* <input type="date"> values of the saved birthdays
BirthdayTexts ==
    {[y |-> 1990, m |-> 6, d |-> 1],
     [y |-> 1990, m |-> 6, d |-> 15],
     [y |-> 1990, m |-> 7, d |-> 1],
     [y |-> 1990, m |-> 7, d |-> 2],
     [y |-> 1988, m |-> 12, d |-> 25],
     [y |-> 1990, m |-> 1, d |-> 2],
     [y |-> 1992, m |-> 2, d |-> 29],
     [y |-> 1990, m |-> 3, d |-> 1]}

InitDates ==
    /\ adminDoc = [organizerUid |-> Uid("s1")]
    /\ timezone \in Timezones
    /\ now \in Clocks
    /\ \E n \in 0..MaxList :
          coworkerDocs \in
             [1..n -> {[name |-> "Ann", birthday |-> b] :
                          b \in {Null} \cup {NewDate(t, timezone) : t \in BirthdayTexts}}]
    /\ contributionDocs = << >>
    /\ paymentInfoDoc = Null
    /\ nextId = Len(coworkerDocs) + 1
    /\ user = [s \in Sessions |-> [uid |-> Uid(s)]]
    /\ isOrganizer = [s \in Sessions |-> s = "s1"]
    /\ loading = [s \in Sessions |-> FALSE]
    /\ coworkers = [s \in Sessions |-> << >>]
    /\ contributions = [s \in Sessions |-> << >>]
    /\ paymentInfo = [s \in Sessions |-> [method |-> "", details |-> ""]]
    /\ isContributionModalOpen = [s \in Sessions |-> FALSE]
    /\ contributionTarget = [s \in Sessions |-> Null]
    /\ upcomingBirthdays = [s \in Sessions |-> << >>]
    /\ pc = [s \in Sessions |-> "done"]
    /\ lastWrite = Null
    /\ nWrites = 0

NextDates == \E s \in Sessions : SnapshotCoworkers(s)

SpecDates == InitDates /\ [][NextDates]_vars

(***************************************************************************)
(* The card summary: the store holds a birthday person, further coworkers  *)
(* and possibly the contribution record of the birthday, and each          *)
(* session's listeners deliver them.                                       *)
(***************************************************************************)
\* entries updateContribution stores
StoredEntries ==
    {Unpaid} \cup {[amount |-> a, status |-> st] :
                      a \in 1..MaxStored, st \in {"pledged", "paid"}}

\* the coworker documents: the birthday person first, then n - 1 contributors
StaffOf(n) == [i \in 1..n |-> IF i = 1 THEN Staff[1] ELSE Staff[2]]

\* the record updateContribution created when k coworkers were listed, with
\* the entries the clicks since have stored
RecordsOf(k) ==
    {[birthdayCoworkerId |-> 1, year |-> LedgerNow.y, contributors |-> c] :
        c \in {f \in [1..k -> StoredEntries] : f[1] = Unpaid}}

InitSummary ==
    /\ adminDoc = [organizerUid |-> Uid("s1")]
    /\ \E n \in 0..MaxStaff : coworkerDocs = StaffOf(n)
    /\ \/ contributionDocs = << >>
       \/ \E k \in 2..Len(coworkerDocs) : \E record \in RecordsOf(k) :
             contributionDocs = With(<< >>, ContributionId(1, LedgerNow), record)
    /\ paymentInfoDoc = Null
    /\ nextId = Len(coworkerDocs) + 1
    /\ now = LedgerNow
    /\ timezone = 8
    /\ user = [s \in Sessions |-> [uid |-> Uid(s)]]
    /\ isOrganizer = [s \in Sessions |-> s = "s1"]
    /\ loading = [s \in Sessions |-> FALSE]
    /\ coworkers = [s \in Sessions |-> << >>]
    /\ contributions = [s \in Sessions |-> << >>]
    /\ paymentInfo = [s \in Sessions |-> [method |-> "", details |-> ""]]
    /\ isContributionModalOpen = [s \in Sessions |-> FALSE]
    /\ contributionTarget = [s \in Sessions |-> Null]
    /\ upcomingBirthdays = [s \in Sessions |-> << >>]
    /\ pc = [s \in Sessions |-> "done"]
    /\ lastWrite = Null
    /\ nWrites = 0

NextSummary ==
    \E s \in Sessions :
        \/ SnapshotCoworkers(s)
        \/ SnapshotContributions(s)

SpecSummary == InitSummary /\ [][NextSummary]_vars

(***************************************************************************)
(* The calendar: the page stays open over the turn of the year. The store  *)
(* holds a coworker whose birthday is on 1 January and a contributor; the  *)
(* listeners deliver, sessions click contribution cells, and days pass.    *)
(***************************************************************************)
\* new Date() when the page is opened
CalendarStart == [y |-> 2025, m |-> 12, d |-> 31, h |-> 10]

CalendarStaff ==
    <<[name |-> "Ann", birthday |-> NewDate([y |-> 1990, m |-> 1, d |-> 1], 8)],
      [name |-> "Ann", birthday |-> Null]>>

InitCalendar ==
    /\ adminDoc = [organizerUid |-> Uid("s1")]
    /\ coworkerDocs = CalendarStaff
    /\ contributionDocs = << >>
    /\ paymentInfoDoc = Null
    /\ nextId = Len(CalendarStaff) + 1
    /\ now = CalendarStart
    /\ timezone = 8
    /\ user = [s \in Sessions |-> [uid |-> Uid(s)]]
    /\ isOrganizer = [s \in Sessions |-> s = "s1"]
    /\ loading = [s \in Sessions |-> FALSE]
    /\ coworkers = [s \in Sessions |-> << >>]
    /\ contributions = [s \in Sessions |-> << >>]
    /\ paymentInfo = [s \in Sessions |-> [method |-> "", details |-> ""]]
    /\ isContributionModalOpen = [s \in Sessions |-> FALSE]
    /\ contributionTarget = [s \in Sessions |-> Null]
    /\ upcomingBirthdays = [s \in Sessions |-> << >>]
    /\ pc = [s \in Sessions |-> "done"]
    /\ lastWrite = Null
    /\ nWrites = 0

\* midnight passes: every later new Date() is a day on; no state of the page
\* changes, and the memo, whose dependency is [coworkers], is not recomputed
DayPasses ==
    /\ DayNumber(now) < DayNumber(CalendarStart) + MaxDays
    /\ now' = SetDate(now, now.d + 1)
    /\ UNCHANGED <<storeVars, timezone, viewVars, promptVars, roleVars, writeVars>>

NextCalendar ==
    \/ DayPasses
    \/ \E s \in Sessions :
          \/ SnapshotCoworkers(s)
          \/ Contributions(s)

SpecCalendar == InitCalendar /\ [][NextCalendar]_vars

(***************************************************************************)
(* Properties.                                                             *)
(***************************************************************************)
StoredEntry(birthdayCoworkerId, contributorId) ==
    contributionDocs[ContributionId(birthdayCoworkerId, now)].contributors[contributorId]

\* the step sends an updateContribution of session s through handler via
Updates(s, via) ==
    /\ nWrites' = nWrites + 1
    /\ lastWrite'.op = "updateContribution"
    /\ lastWrite'.by = s
    /\ lastWrite'.via = via

\* C1: a click on a pair writes the successor, on the cycle unpaid -> pledged ->
\* paid -> unpaid, of the status the clicking session sees for the pair: a click
\* on pledged writes paid, a click on paid writes unpaid, a click on unpaid
\* writes nothing and opens the prompt, and the prompt's confirmation writes
\* pledged for the pair the prompt was opened on; a committed write leaves the
\* pair with the written status
ClickCycle ==
    [][\A s \in Sessions :
          /\ Updates(s, "click") =>
                /\ <<SeenContribution(s, lastWrite'.birthdayCoworkerId,
                                      lastWrite'.contributorId).status,
                     lastWrite'.data.status>>
                      \in {<<"pledged", "paid">>, <<"paid", "unpaid">>}
                /\ lastWrite'.ok =>
                      contributionDocs'[ContributionId(lastWrite'.birthdayCoworkerId, now)]
                         .contributors[lastWrite'.contributorId].status
                         = lastWrite'.data.status
          /\ Updates(s, "pledge") =>
                /\ PromptShown(s)
                /\ contributionTarget[s].birthdayCoworkerId = lastWrite'.birthdayCoworkerId
                /\ contributionTarget[s].contributorId = lastWrite'.contributorId
                /\ lastWrite'.data.status = "pledged"
          /\ (~PromptShown(s) /\ PromptShown(s)') =>
                /\ UNCHANGED <<contributionDocs, writeVars>>
                /\ SeenContribution(s, contributionTarget'[s].birthdayCoworkerId,
                                    contributionTarget'[s].contributorId).status = "unpaid"
      ]_vars

\* C1 witness: a pair went round the cycle: the click on paid wrote unpaid
CycleClosed ==
    /\ lastWrite # Null
    /\ lastWrite.op = "updateContribution"
    /\ lastWrite.via = "click"
    /\ lastWrite.ok
    /\ lastWrite.data.status = "unpaid"
    /\ StoredEntry(lastWrite.birthdayCoworkerId, lastWrite.contributorId).status = "unpaid"

\* C2: after a committed handleDeleteCoworker(X) the store holds no coworker
\* document X and no contribution record with X among its contributors
DeletionComplete ==
    (lastWrite # Null /\ lastWrite.op = "deleteCoworker" /\ lastWrite.ok) =>
        /\ lastWrite.id \notin DOMAIN coworkerDocs
        /\ \A cid \in DOMAIN contributionDocs :
              lastWrite.id \notin DOMAIN contributionDocs[cid].contributors

\* C3: organizerUid is written at most once: once meta/admin holds a claim, no
\* step writes it again or changes it
ClaimSetOnce ==
    [][adminDoc # Null => adminDoc' = adminDoc]_vars

\* C4: at most one session identity is organizer, and an organizer's uid is the
\* organizerUid stored in meta/admin
OneOrganizer ==
    /\ Cardinality({Uid(s) : s \in {t \in Sessions : isOrganizer[t]}}) <= 1
    /\ \A s \in Sessions :
          isOrganizer[s] => (adminDoc # Null /\ adminDoc.organizerUid = Uid(s))

\* C5: every stored contributor entry is {positive amount, pledged}, {positive
\* amount, paid} or {0, unpaid}: a pledged or paid entry has amount > 0
PositiveWhenNotUnpaid ==
    \A cid \in DOMAIN contributionDocs :
        \A k \in DOMAIN contributionDocs[cid].contributors :
            LET e == contributionDocs[cid].contributors[k]
            IN  /\ e.status \in {"unpaid", "pledged", "paid"}
                /\ e.status \in {"pledged", "paid"} => e.amount > 0
                /\ e.status = "unpaid" => e.amount = 0

\* C5 witness: a pledged amount was carried into a paid entry
PaidEntryStored ==
    \E cid \in DOMAIN contributionDocs :
        \E k \in DOMAIN contributionDocs[cid].contributors :
            /\ contributionDocs[cid].contributors[k].status = "paid"
            /\ contributionDocs[cid].contributors[k].amount > 0

\* C6: no contribution record has its own birthday recipient among the keys of
\* its contributors mapping
RecipientNotContributor ==
    \A cid \in DOMAIN contributionDocs :
        contributionDocs[cid].birthdayCoworkerId
            \notin DOMAIN contributionDocs[cid].contributors

\* C7: a step that sends a coworker save, a coworker deletion or a payment-info
\* write, or that changes the coworker documents or the payment info, is taken
\* by a session whose isOrganizer is true, or is the self-service addDoc of a
\* new coworker document with birthday = null
OnlyOrganizerManages ==
    [][(\/ coworkerDocs' # coworkerDocs
        \/ paymentInfoDoc' # paymentInfoDoc
        \/ /\ nWrites' = nWrites + 1
           /\ lastWrite'.op \in {"saveCoworker", "deleteCoworker", "savePaymentInfo"})
       => /\ nWrites' = nWrites + 1
          /\ \/ isOrganizer[lastWrite'.by]
             \/ /\ lastWrite'.op = "addContributor"
                /\ paymentInfoDoc' = paymentInfoDoc
                /\ nextId \notin DOMAIN coworkerDocs
                /\ coworkerDocs' \in
                      {With(coworkerDocs, nextId, [name |-> n, birthday |-> Null]) :
                          n \in Names}]_vars

\* C7 witness: beside a birthday person the organizer saved, a session that is
\* not organizer has added its own name
SelfServiceAdded ==
    /\ lastWrite # Null
    /\ lastWrite.op = "addContributor"
    /\ lastWrite.ok
    /\ ~isOrganizer[lastWrite.by]
    /\ Rendered(lastWrite.by)
    /\ \E id \in DOMAIN coworkerDocs : coworkerDocs[id].birthday # Null
    /\ coworkerDocs[lastWrite.id].birthday = Null

\* the calendar day of a Date
DayOf(date) == [y |-> date.y, m |-> date.m, d |-> date.d]

\* month/day is not before the month/day of t
NotBefore(m, d, t) == m > t.m \/ (m = t.m /\ d >= t.d)

\* the stored birthday's month/day in t's year, or in the following year when
\* that day is before t
MonthDayOnOrAfter(m, d, t) ==
    [y |-> IF NotBefore(m, d, t) THEN t.y ELSE t.y + 1, m |-> m, d |-> d]

\* the birthdays of the coworkers the listeners have delivered
DeliveredBirthdays ==
    UNION {{coworkers[s][i].birthday : i \in 1..Len(coworkers[s])} : s \in Sessions}
        \ {Null}

IsLeapDay(date) == date.m = 2 /\ date.d = 29

\* C8 as stated: every stored birthday a session computes on resolves to its own month/day, in
\* today's year when that day is not before today and in the following year
\* otherwise, and never to a date before today
ResolvesToMonthDay ==
    \A birthday \in DeliveredBirthdays :
        LET t == Today(now)
            resolved == NextBirthday(birthday, now)
        IN  /\ DayOf(resolved) = MonthDayOnOrAfter(birthday.m, birthday.d, t)
            /\ TimeValue(resolved) >= TimeValue(t)

\* C8 amended: a stored birthday other than 29 February resolves to its own
\* month/day, in today's year when that day is not before today and in the
\* following year otherwise; a 29 February birthday resolves to 29 February of
\* today's year when that is a leap year and the day is not before today, and
\* else to 1 March (of today's year when today's year is no leap year and
\* 1 March is not before today, of the following year otherwise); the resolved
\* date keeps the stored time of day and is never before today
ResolvesToMonthDayOrFirstOfMarch ==
    \A birthday \in DeliveredBirthdays :
        LET t == Today(now)
            resolved == NextBirthday(birthday, now)
        IN  /\ TimeValue(resolved) >= TimeValue(t)
            /\ resolved.h = birthday.h
            /\ ~IsLeapDay(birthday) =>
                  DayOf(resolved) = MonthDayOnOrAfter(birthday.m, birthday.d, t)
            /\ IsLeapDay(birthday) =>
                  DayOf(resolved) =
                     IF IsLeap(t.y) /\ NotBefore(2, 29, t)
                     THEN [y |-> t.y, m |-> 2, d |-> 29]
                     ELSE IF IsLeap(t.y)
                          THEN [y |-> t.y + 1, m |-> 3, d |-> 1]
                          ELSE MonthDayOnOrAfter(3, 1, t)

\* C8 witness: in December a January birthday is listed with next year's date,
\* and some session lists a birthday that is today
ResolvedIntoNextYear ==
    \E s \in Sessions : \E j \in 1..Len(upcomingBirthdays[s]) :
        /\ upcomingBirthdays[s][j].nextBirthday.y = now.y + 1
        /\ upcomingBirthdays[s][j].nextBirthday.m = 1
        /\ now.m = 12

Listed(s, id) ==
    \E j \in 1..Len(upcomingBirthdays[s]) : upcomingBirthdays[s][j].id = id

\* C9: a coworker of the session's view is listed in upcomingBirthdays exactly
\* when it has a birthday whose resolved day is today, 30 days from today or a
\* day in between
ListedIffInWindow ==
    \A s \in Sessions : \A i \in 1..Len(coworkers[s]) :
        LET cw == coworkers[s][i]
        IN  Listed(s, cw.id) <=>
               /\ cw.birthday # Null
               /\ DayNumber(NextBirthday(cw.birthday, now)) - DayNumber(Today(now))
                     \in 0..WindowDays

\* C10: upcomingBirthdays is in ascending order of nextBirthday
UpcomingAscending ==
    \A s \in Sessions : \A j \in 1..(Len(upcomingBirthdays[s]) - 1) :
        TimeValue(upcomingBirthdays[s][j].nextBirthday)
            <= TimeValue(upcomingBirthdays[s][j + 1].nextBirthday)

\* C10 witness: two listed coworkers stand in the opposite order of their
\* documents, the later document having the earlier birthday
UpcomingReordered ==
    \E s \in Sessions :
        /\ Len(upcomingBirthdays[s]) >= 2
        /\ upcomingBirthdays[s][1].id > upcomingBirthdays[s][2].id
        /\ TimeValue(upcomingBirthdays[s][1].nextBirthday)
              < TimeValue(upcomingBirthdays[s][2].nextBirthday)

\* the listed birthday cards of a session and the entries each one sums over
Cards(s) == {upcomingBirthdays[s][j].id : j \in 1..Len(upcomingBirthdays[s])}

PaidKeys(contributionData) ==
    {k \in DOMAIN contributionData : contributionData[k].status = "paid"}

RECURSIVE AmountOver(_, _)
AmountOver(contributionData, keys) ==
    IF keys = {} THEN 0
    ELSE LET k == CHOOSE x \in keys : TRUE
         IN  contributionData[k].amount + AmountOver(contributionData, keys \ {k})

\* C11: the totalAmount of every card is the sum of amount over exactly the
\* entries of its record whose status is paid; pledged and unpaid entries add
\* nothing
TotalIsSumOfPaid ==
    \A s \in Sessions : \A r \in Cards(s) :
        LET contributionData == ContributionData(s, r)
        IN  TotalAmount(contributionData)
               = AmountOver(contributionData, PaidKeys(contributionData))

\* C11 witness: a card whose record has two paid entries and a pledged one
\* shows the sum of the two paid amounts
PaidAndPledgedSummed ==
    \E s \in Sessions : \E r \in Cards(s) :
        LET contributionData == ContributionData(s, r)
        IN  /\ Cardinality(PaidKeys(contributionData)) = 2
            /\ \E k \in DOMAIN contributionData :
                  /\ contributionData[k].status = "pledged"
                  /\ contributionData[k].amount > 0
            /\ TotalAmount(contributionData) = 3

\* C12: on every card paidCount is the number of entries whose status is paid,
\* the eligible count is the number of coworkers minus one, 0 for no or one
\* coworker, and progress is paidCount / eligible * 100 when eligible > 0 and
\* 0 otherwise
SummaryCounts ==
    \A s \in Sessions :
        LET n == Len(coworkers[s])
            eligible == TotalContributors(s)
        IN  /\ eligible = (IF n \in {0, 1} THEN 0 ELSE n - 1)
            /\ \A r \in Cards(s) :
                  LET paidCount == PaidCount(ContributionData(s, r))
                      progress == Progress(paidCount, eligible)
                  IN  /\ paidCount = Cardinality(PaidKeys(ContributionData(s, r)))
                      /\ progress.den > 0
                      /\ IF eligible > 0
                         THEN progress.num * eligible = paidCount * 100 * progress.den
                         ELSE progress.num = 0

\* C12 witness: one paid entry beside a pledged one, four coworkers: 1 paid of
\* 3 eligible, progress one third of 100
OnePaidOfThree ==
    \E s \in Sessions : \E r \in Cards(s) :
        LET contributionData == ContributionData(s, r)
            progress == Progress(PaidCount(contributionData), TotalContributors(s))
        IN  /\ Len(coworkers[s]) = 4
            /\ PaidCount(contributionData) = 1
            /\ \E k \in DOMAIN contributionData : contributionData[k].status = "pledged"
            /\ progress.num * 3 = 100 * progress.den

\* C13: a click on an entry the session sees as pledged writes paid with the
\* amount of that entry, a click on an entry it sees as paid writes unpaid
\* with amount 0, and a pledge confirmed with an accepted amount writes
\* pledged with exactly the entered amount; a committed write stores what was
\* written
TransitionAmounts ==
    [][\A s \in Sessions :
          /\ Updates(s, "click") =>
                LET seen == SeenContribution(s, lastWrite'.birthdayCoworkerId,
                                             lastWrite'.contributorId)
                IN  /\ seen.status \in {"pledged", "paid"}
                    /\ seen.status = "pledged" =>
                          lastWrite'.data = [amount |-> seen.amount, status |-> "paid"]
                    /\ seen.status = "paid" =>
                          lastWrite'.data = [amount |-> 0, status |-> "unpaid"]
          /\ \A input \in AmountInputs, ok \in Outcomes :
                HandlePledgeContribution(s, input, ok) =>
                    /\ input.text = "number"
                    /\ lastWrite'.data = [amount |-> input.value, status |-> "pledged"]
          /\ (Updates(s, "click") \/ Updates(s, "pledge")) /\ lastWrite'.ok =>
                contributionDocs'[ContributionId(lastWrite'.birthdayCoworkerId, now)]
                   .contributors[lastWrite'.contributorId] = lastWrite'.data
      ]_vars

\* C13 witness: a pledged amount was written again, unchanged, with status
\* paid, and is stored
PaidWithPledgedAmount ==
    /\ lastWrite # Null
    /\ lastWrite.op = "updateContribution"
    /\ lastWrite.via = "click"
    /\ lastWrite.ok
    /\ lastWrite.data.status = "paid"
    /\ lastWrite.data.amount > 0
    /\ StoredEntry(lastWrite.birthdayCoworkerId, lastWrite.contributorId) = lastWrite.data

\* C14: the click that opens the prompt writes nothing, and closing the
\* prompt, by Cancel or by confirming an amount that is not a number or is
\* not > 0, sends no write and leaves the store as it was
CancelLeavesStore ==
    [][\A s \in Sessions :
          /\ (~PromptShown(s) /\ PromptShown(s)') => UNCHANGED <<storeVars, writeVars>>
          /\ \A input \in AmountInputs :
                (/\ input.text # "number" \/ input.value <= 0
                 /\ \/ ClosePrompt(s, input)
                    \/ \E ok \in Outcomes : HandlePledgeContribution(s, input, ok))
                => UNCHANGED <<storeVars, writeVars>>
      ]_vars

\* C14 witness: a prompt was opened on an unpaid pair and closed again, and
\* nothing was written
PromptCancelled ==
    \E s \in Sessions :
        /\ contributionTarget[s] # Null
        /\ ~isContributionModalOpen[s]
        /\ nWrites = 0
        /\ contributionDocs = << >>

\* the view holds one entry per document of docs, with the document's fields
HoldsDocuments(view, docs) ==
    /\ Len(view) = Cardinality(DOMAIN docs)
    /\ \A id \in DOMAIN docs : \E i \in 1..Len(view) :
          /\ view[i].id = id
          /\ view[i].name = docs[id].name
          /\ view[i].birthday = docs[id].birthday

FailsClosedAndRenders ==
    /\ [][\A s \in Sessions :
             /\ pc[s] \in {"getDoc", "setDoc"} => ~isOrganizer[s]
             /\ CheckOrganizerFails(s) => ~isOrganizer'[s] /\ adminDoc' = adminDoc
         ]_vars
    /\ \A s \in Sessions : (user[s] # Null) ~> ~loading[s]

\* C16 witness: a session's check failed while the store holds no claim: the
\* page is rendered and the session is no organizer
CheckFailedAndRendered ==
    \E s \in Sessions :
        /\ user[s] # Null
        /\ pc[s] = "done"
        /\ adminDoc = Null
        /\ ~isOrganizer[s]
        /\ Rendered(s)

\* C17: a step sends at most one write, and a write that fails leaves the
\* store (admin claim, coworker documents, contribution records, payment
\* info) exactly as it was: nothing of the operation is applied and nothing
\* is sent again
FailedWriteIsTerminal ==
    [][nWrites' # nWrites =>
          /\ nWrites' = nWrites + 1
          /\ ~lastWrite'.ok => UNCHANGED storeVars
      ]_vars

\* C17 witness: a deletion batch failed and the coworker and the records
\* naming it are still stored
FailedDeletionLeftAll ==
    /\ lastWrite # Null
    /\ lastWrite.op = "deleteCoworker"
    /\ ~lastWrite.ok
    /\ lastWrite.id \in DOMAIN coworkerDocs
    /\ \E id \in DOMAIN coworkerDocs : id # lastWrite.id

\* the step commits a write of the handlers
Commits(op) ==
    /\ nWrites' = nWrites + 1
    /\ lastWrite'.op = op
    /\ lastWrite'.ok

\* the entry stored for contributor y in record cid is after the step what it
\* was before
EntryKept(cid, y) ==
    /\ cid \in DOMAIN contributionDocs'
    /\ y \in DOMAIN contributionDocs'[cid].contributors
    /\ contributionDocs'[cid].contributors[y] = contributionDocs[cid].contributors[y]

\* C18: a committed status transition for (R, X) leaves the stored entry of
\* every other contributor of every record as it was, and so does the
\* committed deletion of coworker X
OnlyOwnEntryChanges ==
    [][/\ Commits("updateContribution") =>
            \A cid \in DOMAIN contributionDocs :
                \A y \in DOMAIN contributionDocs[cid].contributors :
                    (cid # ContributionId(lastWrite'.birthdayCoworkerId, now)
                        \/ y # lastWrite'.contributorId)
                    => EntryKept(cid, y)
       /\ Commits("deleteCoworker") =>
            \A cid \in DOMAIN contributionDocs :
                \A y \in DOMAIN contributionDocs[cid].contributors :
                    y # lastWrite'.id => EntryKept(cid, y)
      ]_vars

\* the edges of the status cycle
CycleEdges ==
    {<<"unpaid", "pledged">>, <<"pledged", "paid">>, <<"paid", "unpaid">>}

\* C19: the status stored for a pair changes only along unpaid -> pledged,
\* pledged -> paid, paid -> unpaid, whichever session commits the write
StoredStatusFollowsCycle ==
    [][\A cid \in DOMAIN contributionDocs \cap DOMAIN contributionDocs' :
          \A x \in DOMAIN contributionDocs[cid].contributors
                     \cap DOMAIN contributionDocs'[cid].contributors :
              LET before == contributionDocs[cid].contributors[x].status
                  after == contributionDocs'[cid].contributors[x].status
              IN  before # after => <<before, after>> \in CycleEdges
      ]_vars

\* the coworkers whose deletion has committed: ids addDoc has given out that
\* name no coworker document
Deleted == {x \in 1..(nextId - 1) : x \notin DOMAIN coworkerDocs}

\* the contribution records that have x among their contributors
RecordsNaming(docs, x) == {cid \in DOMAIN docs : x \in DOMAIN docs[cid].contributors}

\* C20: once the deletion of coworker X has committed, no step makes X a key
\* of a contribution record: no status transition and no newly created
\* record brings X back
DeletedStayGone ==
    [][\A x \in Deleted :
          RecordsNaming(contributionDocs', x) \subseteq RecordsNaming(contributionDocs, x)
      ]_vars

\* C21: on every displayed birthday card the number of paid entries of the
\* record is at most the number of coworkers other than the recipient, so
\* progress is between 0 and 100
PaidWithinEligible ==
    \A s \in Sessions : \A r \in Cards(s) :
        LET paidCount == PaidCount(ContributionData(s, r))
            progress == Progress(paidCount, TotalContributors(s))
        IN  /\ paidCount <= TotalContributors(s)
            /\ progress.num >= 0
            /\ progress.num <= 100 * progress.den

\* the coworkers of a session's view whose birthday is in the window today
DueToday(s) ==
    LET due == UpcomingBirthdays(coworkers[s], now)
    IN  {due[j].id : j \in 1..Len(due)}

\* C22: for a displayed card whose birthday is in the window today, every
\* record of the session's view that holds entries for that birthday person
\* is the record the summary reads and updateContribution writes today: the
\* entries pledged or paid for the birthday before 1 January are the ones
\* its summary shows after 1 January
OneRecordPerBirthday ==
    \A s \in Sessions : \A r \in Cards(s) \cap DueToday(s) :
        \A cid \in DOMAIN contributions[s] :
            contributions[s][cid].birthdayCoworkerId = r =>
                /\ cid = ContributionId(r, now)
                /\ ContributionData(s, r) = contributions[s][cid].contributors

\* C23: in every client state upcomingBirthdays is the window filter applied
\* to the session's coworkers view and the current date
UpcomingReflectsToday ==
    \A s \in Sessions :
        upcomingBirthdays[s] = UpcomingBirthdays(coworkers[s], now)

=============================================================================
